---- MODULE Spec2Model ----
(***************************************************************************)
(* Model of Examples/torch/quantization/cle_bc.ipynb: the notebook's code  *)
(* cells run top to bottom, one action per statement that calls out of the *)
(* notebook.  Model objects live in a heap (a sequence, the index is the   *)
(* object's identity) so that copy.deepcopy, in-place library calls and    *)
(* aliasing can be told apart.                                             *)
(***************************************************************************)
EXTENDS Integers, Sequences, FiniteSets, TLC

VARIABLES
    config,           \* the config dict (cell at line 101)
    cuda_available,   \* what torch.cuda.is_available() answers
    num_batches,      \* line 231/232: one of the two offered values
    pc,               \* the statement about to run, "done" or "failed"
    error,            \* the exception that ended the run, if any
    trace,            \* the statements that completed, in order
    heap,             \* torch.nn.Module objects, by identity
    model,            \* the name `model` (0: unbound)
    BN_folded_model,  \* the name `BN_folded_model` (0: unbound)
    sims,             \* quantizer, cle_quantizer, bc_quantizer
    data_pipeline,    \* the ImageNetDataPipeline instance
    ctor_config,      \* what ImageNetDataPipeline.__init__ was given
    data_loader,      \* the name `data_loader`
    dummy_input,      \* the name `dummy_input`
    bc_params,        \* the name `bc_params`
    accuracy,         \* the name `accuracy`
    accuracy_src,     \* index in evalLog of the call that produced `accuracy`
    evalLog,          \* every call of ImageNetDataPipeline.evaluate
    printed,          \* every print, in order
    files             \* every torch.save, in order

vars == <<config, cuda_available, num_batches, pc, error, trace, heap, model,
          BN_folded_model, sims, data_pipeline, ctor_config, data_loader,
          dummy_input, bc_params, accuracy, accuracy_src, evalLog, printed, files>>

(***************************************************************************)
(* Bounds and program constants                                            *)
(***************************************************************************)
MaxAcc == 1                  \* accuracies the evaluator may return: 0..MaxAcc
MaxCalls == 2                \* calls of the pipeline in SpecPipeline

NumBatchesTypical == 5
NumBatchesTest == 1
default_output_bw == 8
default_param_bw == 8

Accuracies == 0..MaxAcc

\* Python's None for `iterations` is the empty set, a given n is {n}.
None == {}
Some(n) == {n}

DatasetDir == "path/to/dataset"
LogDir == "benchmark_output/cle_bc_<timestamp>"

Configs == { [dataset_dir |-> DatasetDir, use_cuda |-> c, logdir |-> LogDir] : c \in BOOLEAN }
NoConfig == [dataset_dir |-> "", use_cuda |-> FALSE, logdir |-> ""]

(***************************************************************************)
(* Objects                                                                 *)
(***************************************************************************)
\* resnet18(pretrained=True): a fresh module, on the CPU, in training mode,
\* nothing folded, equalized, corrected or wrapped.
PretrainedModel ==
    [device |-> "cpu", training |-> TRUE, bn_folded |-> FALSE, cle |-> FALSE,
     bc |-> FALSE, quant_wrapped |-> FALSE]

NoSim == [model |-> 0, encodings |-> FALSE, output_bw |-> 0, param_bw |-> 0]
SimNames == {"quantizer", "cle_quantizer", "bc_quantizer"}

NoError == [raised |-> FALSE, step |-> "", err |-> ""]
NoPipeline == [constructed |-> FALSE, _config |-> NoConfig]
NoLoader == [made |-> FALSE, is_training |-> FALSE, images_dir |-> ""]
NoParams == [set |-> FALSE, weight_bw |-> 0, act_bw |-> 0]

\* What a call returns or raises.
Ret(v) == [raised |-> FALSE, value |-> v, err |-> ""]
Raised(e) == [raised |-> TRUE, value |-> 0, err |-> e]
EvaluatorOutcomes == { Ret(a) : a \in Accuracies } \cup { Raised("EvaluatorError") }

(***************************************************************************)
(* The notebook's statements, in source order                              *)
(***************************************************************************)
ProgramEqualizeFirst ==
    << "makedirs", "pipeline_ctor", "load_model", "cuda_guard", "model_eval",
       "equalize",
       "baseline_evaluate", "print_original",
       "dummy_input_q", "deepcopy", "fold_bn", "quantizer_build",
       "quantizer_encodings", "quantizer_evaluate", "print_quantized",
       "dummy_input_cle", "cle_build", "cle_encodings", "cle_evaluate", "print_cle",
       "data_loader", "bc_params", "correct_bias",
       "dummy_input_bc", "bc_build", "bc_encodings", "bc_evaluate", "print_bc",
       "save" >>

Program ==
    << "makedirs", "pipeline_ctor", "load_model", "cuda_guard", "model_eval",
       "baseline_evaluate", "print_original",
       "dummy_input_q", "deepcopy", "fold_bn", "quantizer_build",
       "quantizer_encodings", "quantizer_evaluate", "print_quantized",
       "equalize",
       "dummy_input_cle", "cle_build", "cle_encodings", "cle_evaluate", "print_cle",
       "data_loader", "bc_params", "correct_bias",
       "dummy_input_bc", "bc_build", "bc_encodings", "bc_evaluate", "print_bc",
       "save" >>

IndexOf(step) == CHOOSE i \in 1..Len(Program) : Program[i] = step

\* Top-to-bottom execution: the statement after `step`, "done" after the last.
Succ(step) ==
    IF IndexOf(step) = Len(Program) THEN "done" ELSE Program[IndexOf(step) + 1]

(***************************************************************************)
(* Control flow: no statement of the notebook sits in a try block, so a    *)
(* raised exception ends the run at the statement that raised it.          *)
(***************************************************************************)
Advance(step) ==
    /\ pc' = Succ(step)
    /\ trace' = Append(trace, step)
    /\ error' = error

RaiseSwallowed(step, err) ==
    /\ pc' = Succ(step)
    /\ error' = [raised |-> TRUE, step |-> step, err |-> err]
    /\ trace' = trace

Raise(step, err) ==
    /\ pc' = "failed"
    /\ error' = [raised |-> TRUE, step |-> step, err |-> err]
    /\ trace' = trace

(***************************************************************************)
(* class ImageNetDataPipeline                                              *)
(***************************************************************************)
\* __init__: self._config = config
PipelineInit(cfg) == [constructed |-> TRUE, _config |-> cfg]

\* data_loader(): ImageNetDataLoader(is_training=False,
\*                                   images_dir=self._config["dataset_dir"], ...)
PipelineDataLoader(self) ==
    [made |-> TRUE, is_training |-> FALSE, images_dir |-> self._config.dataset_dir]

\* The signature's defaults: iterations: int = None, use_cuda: bool = False
DefaultIterations == None
DefaultUseCuda == FALSE

EvaluatorArgsNoCuda(m, iterations, use_cuda) ==
    [model |-> m, iterations |-> iterations, use_cuda |-> DefaultUseCuda]

\* evaluate(): what evaluator.evaluate(model, iterations, use_cuda) is handed
EvaluatorArgs(m, iterations, use_cuda) ==
    [model |-> m, iterations |-> iterations, use_cuda |-> use_cuda]

\* evaluate(): `return evaluator.evaluate(...)`, nothing caught, nothing changed
EvaluateReturn(out) == out

\* One call of data_pipeline.evaluate(m, iterations, use_cuda) made by `caller`,
\* the external evaluator answering `out`: what the wrapper received (w_args),
\* what it handed on (e_args), what the evaluator answered (e_out), what the
\* wrapper answered (w_out), and the state of the evaluated object then (snap).
EvalEntry(caller, m, iterations, use_cuda, out) ==
    [caller |-> caller,
     w_args |-> [model |-> m, iterations |-> iterations, use_cuda |-> use_cuda],
     e_args |-> EvaluatorArgs(m, iterations, use_cuda),
     e_out  |-> out,
     w_out  |-> EvaluateReturn(out),
     snap   |-> heap[EvaluatorArgs(m, iterations, use_cuda).model]]

(***************************************************************************)
(* Library calls, as the notebook uses and describes them                  *)
(***************************************************************************)
\* copy.deepcopy(o): a new object in the same state
DeepCopyHeap(h, src) == Append(h, h[src])

\* fold_all_batch_norms(m, ...): in place
FoldBatchNorms(o) == [o EXCEPT !.bn_folded = TRUE]

\* equalize_model(m, ...): "This API will equalize the model in-place"; it
\* "folds batch norms, applies cross-layer scaling, and then folds high biases"
EqualizeModel(o) == [o EXCEPT !.bn_folded = TRUE, !.cle = TRUE]

\* correct_bias(m, ...): in place
CorrectBias(o) == [o EXCEPT !.bc = TRUE]

\* QuantizationSimModel's in_place parameter when the caller gives none
DefaultInPlace == FALSE

\* QuantizationSimModel(model=src, in_place=...): wraps `src` itself when
\* in_place, a deep copy of it otherwise; sim.model is the wrapped object.
QuantSimHeap(h, src, in_place) ==
    IF in_place
    THEN [h EXCEPT ![src].quant_wrapped = TRUE]
    ELSE Append(h, [h[src] EXCEPT !.quant_wrapped = TRUE])

QuantSimModel(h, src, in_place) == IF in_place THEN src ELSE Len(h) + 1

\* sim.compute_encodings(forward_pass_callback, forward_pass_callback_args)
\* calls forward_pass_callback(sim.model, forward_pass_callback_args)
ForwardPassCall(sim, args) == [model |-> sim.model, iterations |-> args]

(***************************************************************************)
(* What the notebook's statements pass                                     *)
(***************************************************************************)
\* _ = fold_all_batch_norms(BN_folded_model, ...)
FoldOnModel == model
FoldTarget == BN_folded_model

\* quantizer = QuantizationSimModel(model=BN_folded_model, ...), no in_place
QuantizerOnModel == model
QuantizerSource == BN_folded_model
QuantizerInPlace == DefaultInPlace

\* cle_quantizer = QuantizationSimModel(model=model, ...), no in_place
CleQuantizerWrapsModel == TRUE
CleQuantizerInPlace == DefaultInPlace

\* bc_quantizer = QuantizationSimModel(model=model, ..., in_place=False)
BcQuantizerInPlace == FALSE

\* forward_pass_callback=partial(data_pipeline.evaluate, use_cuda=config['use_cuda'])
CallbackUseCuda == config.use_cuda

\* forward_pass_callback_args=num_batches
CallbackArgsUnlimited == None
ForwardPassCallbackArgs == Some(num_batches)

\* torch.save(model, os.path.join(config['logdir'], 'quantized_model.pth'))
SavedObject == model
SavedPath == <<config.logdir, "quantized_model.pth">>

(***************************************************************************)
(* Initial state: before the first statement after the config cell         *)
(***************************************************************************)
Init ==
    /\ config \in Configs
    /\ cuda_available \in BOOLEAN
    /\ num_batches \in {NumBatchesTypical, NumBatchesTest}
    /\ pc = Program[1]
    /\ error = NoError
    /\ trace = <<>>
    /\ heap = <<>>
    /\ model = 0
    /\ BN_folded_model = 0
    /\ sims = [n \in SimNames |-> NoSim]
    /\ data_pipeline = NoPipeline
    /\ ctor_config = NoConfig
    /\ data_loader = NoLoader
    /\ dummy_input = "unset"
    /\ bc_params = NoParams
    /\ accuracy = 0
    /\ accuracy_src = 0
    /\ evalLog = <<>>
    /\ printed = <<>>
    /\ files = <<>>

inputs == <<config, cuda_available, num_batches>>

(***************************************************************************)
(* Cell: config (os.makedirs)                                              *)
(***************************************************************************)
MakeDirs ==
    /\ pc = "makedirs"
    /\ \/ Advance("makedirs")
       \/ Raise("makedirs", "OSError")
    /\ UNCHANGED <<inputs, heap, model, BN_folded_model, sims, data_pipeline,
                   ctor_config, data_loader, dummy_input, bc_params, accuracy,
                   accuracy_src, evalLog, printed, files>>

(***************************************************************************)
(* Cell: load the model, baseline accuracy                                 *)
(***************************************************************************)
PipelineCtor ==
    /\ pc = "pipeline_ctor"
    /\ data_pipeline' = PipelineInit(config)
    /\ ctor_config' = config
    /\ Advance("pipeline_ctor")
    /\ UNCHANGED <<inputs, heap, model, BN_folded_model, sims, data_loader,
                   dummy_input, bc_params, accuracy, accuracy_src, evalLog,
                   printed, files>>

LoadModel ==
    /\ pc = "load_model"
    /\ \/ /\ heap' = Append(heap, PretrainedModel)
          /\ model' = Len(heap) + 1
          /\ Advance("load_model")
       \/ /\ Raise("load_model", "ModelLoadError")
          /\ UNCHANGED <<heap, model>>
    /\ UNCHANGED <<inputs, BN_folded_model, sims, data_pipeline, ctor_config,
                   data_loader, dummy_input, bc_params, accuracy, accuracy_src,
                   evalLog, printed, files>>

CudaGuardNoRaise ==
    /\ pc = "cuda_guard"
    /\ IF config.use_cuda /\ cuda_available
       THEN heap' = [heap EXCEPT ![model].device = "cuda"]
       ELSE heap' = heap
    /\ Advance("cuda_guard")
    /\ UNCHANGED <<inputs, model, BN_folded_model, sims, data_pipeline,
                   ctor_config, data_loader, dummy_input, bc_params, accuracy,
                   accuracy_src, evalLog, printed, files>>

CudaGuard ==
    /\ pc = "cuda_guard"
    /\ IF config.use_cuda
       THEN IF cuda_available
            THEN /\ heap' = [heap EXCEPT ![model].device = "cuda"]
                 /\ Advance("cuda_guard")
            ELSE /\ Raise("cuda_guard", "use_cuda is True but cuda is unavailable")
                 /\ heap' = heap
       ELSE /\ heap' = heap
            /\ Advance("cuda_guard")
    /\ UNCHANGED <<inputs, model, BN_folded_model, sims, data_pipeline,
                   ctor_config, data_loader, dummy_input, bc_params, accuracy,
                   accuracy_src, evalLog, printed, files>>

ModelEval ==
    /\ pc = "model_eval"
    /\ heap' = [heap EXCEPT ![model].training = FALSE]
    /\ Advance("model_eval")
    /\ UNCHANGED <<inputs, model, BN_folded_model, sims, data_pipeline,
                   ctor_config, data_loader, dummy_input, bc_params, accuracy,
                   accuracy_src, evalLog, printed, files>>

\* accuracy = data_pipeline.evaluate(m, iterations, use_cuda)
EvaluateStmt(step, m, iterations, use_cuda) ==
    /\ pc = step
    /\ \E out \in EvaluatorOutcomes :
         LET e == EvalEntry(step, m, iterations, use_cuda, out) IN
         /\ evalLog' = Append(evalLog, e)
         /\ IF e.w_out.raised
            THEN /\ Raise(step, e.w_out.err)
                 /\ UNCHANGED <<accuracy, accuracy_src>>
            ELSE /\ accuracy' = e.w_out.value
                 /\ accuracy_src' = Len(evalLog) + 1
                 /\ Advance(step)
    /\ UNCHANGED <<inputs, heap, model, BN_folded_model, sims, data_pipeline,
                   ctor_config, data_loader, dummy_input, bc_params, printed, files>>

\* print("<label>", accuracy)
PrintAccuracy(step, label) ==
    /\ pc = step
    /\ printed' = Append(printed, [label |-> label, value |-> accuracy, src |-> accuracy_src])
    /\ Advance(step)
    /\ UNCHANGED <<inputs, heap, model, BN_folded_model, sims, data_pipeline,
                   ctor_config, data_loader, dummy_input, bc_params, accuracy,
                   accuracy_src, evalLog, files>>

\* accuracy = data_pipeline.evaluate(model, use_cuda=config['use_cuda'])
BaselineEvaluate ==
    EvaluateStmt("baseline_evaluate", model, DefaultIterations, config.use_cuda)

PrintOriginal == PrintAccuracy("print_original", "Original Model Accuracy")

(***************************************************************************)
(* Statements that the three quantization cells share                      *)
(***************************************************************************)
\* dummy_input = torch.rand(1, 3, 224, 224)
\* if config['use_cuda']: dummy_input = dummy_input.to(torch.device('cuda'))
DummyInput(step) ==
    /\ pc = step
    /\ dummy_input' = IF config.use_cuda THEN "cuda" ELSE "cpu"
    /\ Advance(step)
    /\ UNCHANGED <<inputs, heap, model, BN_folded_model, sims, data_pipeline,
                   ctor_config, data_loader, bc_params, accuracy, accuracy_src,
                   evalLog, printed, files>>

\* <name> = QuantizationSimModel(model=src, ..., [in_place=in_place])
BuildSim(step, name, src, in_place) ==
    /\ pc = step
    /\ \/ /\ heap' = QuantSimHeap(heap, src, in_place)
          /\ sims' = [sims EXCEPT ![name] =
                        [model |-> QuantSimModel(heap, src, in_place),
                         encodings |-> FALSE,
                         output_bw |-> default_output_bw,
                         param_bw |-> default_param_bw]]
          /\ Advance(step)
       \/ /\ Raise(step, "QuantizationSimModelError")
          /\ UNCHANGED <<heap, sims>>
    /\ UNCHANGED <<inputs, model, BN_folded_model, data_pipeline, ctor_config,
                   data_loader, dummy_input, bc_params, accuracy, accuracy_src,
                   evalLog, printed, files>>

\* <name>.compute_encodings(forward_pass_callback=partial(data_pipeline.evaluate,
\*                                                       use_cuda=config['use_cuda']),
\*                          forward_pass_callback_args=num_batches)
ComputeEncodings(step, name) ==
    /\ pc = step
    /\ \E out \in EvaluatorOutcomes :
         LET call == ForwardPassCall(sims[name], ForwardPassCallbackArgs)
             e == EvalEntry(step, call.model, call.iterations, CallbackUseCuda, out)
         IN
         /\ evalLog' = Append(evalLog, e)
         /\ IF e.w_out.raised
            THEN /\ Raise(step, e.w_out.err)
                 /\ sims' = sims
            ELSE \/ /\ sims' = [sims EXCEPT ![name].encodings = TRUE]
                    /\ Advance(step)
                 \/ /\ Raise(step, "ComputeEncodingsError")
                    /\ sims' = sims
    /\ UNCHANGED <<inputs, heap, model, BN_folded_model, data_pipeline,
                   ctor_config, data_loader, dummy_input, bc_params, accuracy,
                   accuracy_src, printed, files>>

(***************************************************************************)
(* Cell: quantization simulation of the batch-norm-folded copy             *)
(***************************************************************************)
DummyInputQ == DummyInput("dummy_input_q")

\* BN_folded_model = copy.deepcopy(model)
DeepCopy ==
    /\ pc = "deepcopy"
    /\ heap' = DeepCopyHeap(heap, model)
    /\ BN_folded_model' = Len(heap) + 1
    /\ Advance("deepcopy")
    /\ UNCHANGED <<inputs, model, sims, data_pipeline, ctor_config, data_loader,
                   dummy_input, bc_params, accuracy, accuracy_src, evalLog,
                   printed, files>>

\* _ = fold_all_batch_norms(BN_folded_model, input_shapes=(1, 3, 224, 224))
FoldBN ==
    /\ pc = "fold_bn"
    /\ \/ /\ heap' = [heap EXCEPT ![FoldTarget] = FoldBatchNorms(@)]
          /\ Advance("fold_bn")
       \/ /\ Raise("fold_bn", "FoldBatchNormsError")
          /\ heap' = heap
    /\ UNCHANGED <<inputs, model, BN_folded_model, sims, data_pipeline,
                   ctor_config, data_loader, dummy_input, bc_params, accuracy,
                   accuracy_src, evalLog, printed, files>>

QuantizerBuild ==
    BuildSim("quantizer_build", "quantizer", QuantizerSource, QuantizerInPlace)

QuantizerEncodings == ComputeEncodings("quantizer_encodings", "quantizer")

\* accuracy = data_pipeline.evaluate(quantizer.model)
QuantizerEvaluate ==
    EvaluateStmt("quantizer_evaluate", sims["quantizer"].model,
                 DefaultIterations, DefaultUseCuda)

PrintQuantized == PrintAccuracy("print_quantized", "Quantized (INT8) Model Top-1 Accuracy")

(***************************************************************************)
(* Cell: cross-layer equalization                                          *)
(***************************************************************************)
\* equalize_model(model, input_shapes=(1, 3, 224, 224))
Equalize ==
    /\ pc = "equalize"
    /\ \/ /\ heap' = [heap EXCEPT ![model] = EqualizeModel(@)]
          /\ Advance("equalize")
       \/ /\ Raise("equalize", "EqualizeModelError")
          /\ heap' = heap
    /\ UNCHANGED <<inputs, model, BN_folded_model, sims, data_pipeline,
                   ctor_config, data_loader, dummy_input, bc_params, accuracy,
                   accuracy_src, evalLog, printed, files>>

(***************************************************************************)
(* Cell: quantization simulation after cross-layer equalization            *)
(***************************************************************************)
DummyInputCle == DummyInput("dummy_input_cle")

CleBuild == BuildSim("cle_build", "cle_quantizer", model, CleQuantizerInPlace)

CleEncodings == ComputeEncodings("cle_encodings", "cle_quantizer")

\* accuracy = data_pipeline.evaluate(cle_quantizer.model)
CleEvaluate ==
    EvaluateStmt("cle_evaluate", sims["cle_quantizer"].model,
                 DefaultIterations, DefaultUseCuda)

PrintCle == PrintAccuracy("print_cle", "CLE applied Model Top-1 accuracy on Quant Simulator")

(***************************************************************************)
(* Cell: bias correction                                                   *)
(***************************************************************************)
\* data_loader = data_pipeline.data_loader()
DataLoader ==
    /\ pc = "data_loader"
    /\ \/ /\ data_loader' = PipelineDataLoader(data_pipeline)
          /\ Advance("data_loader")
       \/ /\ Raise("data_loader", "DataLoaderError")
          /\ data_loader' = data_loader
    /\ UNCHANGED <<inputs, heap, model, BN_folded_model, sims, data_pipeline,
                   ctor_config, dummy_input, bc_params, accuracy, accuracy_src,
                   evalLog, printed, files>>

\* bc_params = QuantParams(weight_bw=default_param_bw, act_bw=default_output_bw, ...)
BcParams ==
    /\ pc = "bc_params"
    /\ bc_params' = [set |-> TRUE, weight_bw |-> default_param_bw,
                     act_bw |-> default_output_bw]
    /\ Advance("bc_params")
    /\ UNCHANGED <<inputs, heap, model, BN_folded_model, sims, data_pipeline,
                   ctor_config, data_loader, dummy_input, accuracy, accuracy_src,
                   evalLog, printed, files>>

\* correct_bias(model, bc_params, num_quant_samples=..., data_loader=data_loader,
\*              num_bias_correct_samples=...)
CorrectBiasStmt ==
    /\ pc = "correct_bias"
    /\ \/ /\ heap' = [heap EXCEPT ![model] = CorrectBias(@)]
          /\ Advance("correct_bias")
       \/ /\ Raise("correct_bias", "CorrectBiasError")
          /\ heap' = heap
    /\ UNCHANGED <<inputs, model, BN_folded_model, sims, data_pipeline,
                   ctor_config, data_loader, dummy_input, bc_params, accuracy,
                   accuracy_src, evalLog, printed, files>>

(***************************************************************************)
(* Cell: quantization simulation after bias correction, and the save       *)
(***************************************************************************)
DummyInputBc == DummyInput("dummy_input_bc")

BcBuild == BuildSim("bc_build", "bc_quantizer", model, BcQuantizerInPlace)

BcEncodings == ComputeEncodings("bc_encodings", "bc_quantizer")

\* accuracy = data_pipeline.evaluate(bc_quantizer.model)
BcEvaluate ==
    EvaluateStmt("bc_evaluate", sims["bc_quantizer"].model,
                 DefaultIterations, DefaultUseCuda)

PrintBc ==
    PrintAccuracy("print_bc", "Quantized (INT8) Model Top-1 Accuracy After Bias Correction")

\* torch.save(model, os.path.join(config['logdir'], 'quantized_model.pth'))
Save ==
    /\ pc = "save"
    /\ \/ /\ files' = Append(files, [path |-> SavedPath, obj |-> SavedObject,
                                     snap |-> heap[SavedObject]])
          /\ Advance("save")
       \/ /\ Raise("save", "SaveError")
          /\ files' = files
    /\ UNCHANGED <<inputs, heap, model, BN_folded_model, sims, data_pipeline,
                   ctor_config, data_loader, dummy_input, bc_params, accuracy,
                   accuracy_src, evalLog, printed>>

Next ==
    \/ MakeDirs \/ PipelineCtor \/ LoadModel \/ CudaGuard \/ ModelEval
    \/ BaselineEvaluate \/ PrintOriginal
    \/ DummyInputQ \/ DeepCopy \/ FoldBN \/ QuantizerBuild \/ QuantizerEncodings
    \/ QuantizerEvaluate \/ PrintQuantized
    \/ Equalize
    \/ DummyInputCle \/ CleBuild \/ CleEncodings \/ CleEvaluate \/ PrintCle
    \/ DataLoader \/ BcParams \/ CorrectBiasStmt
    \/ DummyInputBc \/ BcBuild \/ BcEncodings \/ BcEvaluate \/ PrintBc
    \/ Save

Spec == Init /\ [][Next]_vars

(***************************************************************************)
(* ImageNetDataPipeline on its own: any sequence of evaluate and           *)
(* data_loader calls on a constructed pipeline, with any arguments.        *)
(***************************************************************************)
InitPipeline ==
    /\ config \in Configs
    /\ cuda_available = TRUE
    /\ num_batches = NumBatchesTest
    /\ pc = "pipeline"
    /\ error = NoError
    /\ trace = <<>>
    /\ heap = <<PretrainedModel, FoldBatchNorms(PretrainedModel)>>
    /\ model = 1
    /\ BN_folded_model = 0
    /\ sims = [n \in SimNames |-> NoSim]
    /\ data_pipeline = NoPipeline
    /\ ctor_config = NoConfig
    /\ data_loader = NoLoader
    /\ dummy_input = "unset"
    /\ bc_params = NoParams
    /\ accuracy = 0
    /\ accuracy_src = 0
    /\ evalLog = <<>>
    /\ printed = <<>>
    /\ files = <<>>

\* data_pipeline = ImageNetDataPipeline(config)
PConstruct ==
    /\ pc = "pipeline"
    /\ ~data_pipeline.constructed
    /\ data_pipeline' = PipelineInit(config)
    /\ ctor_config' = config
    /\ UNCHANGED <<inputs, pc, error, trace, heap, model, BN_folded_model, sims,
                   data_loader, dummy_input, bc_params, accuracy, accuracy_src,
                   evalLog, printed, files>>

\* accuracy = data_pipeline.evaluate(m, iterations, use_cuda), the caller
\* surviving what it raises
PEvaluate ==
    /\ pc = "pipeline"
    /\ data_pipeline.constructed
    /\ Len(evalLog) < MaxCalls
    /\ \E m \in DOMAIN heap, iterations \in {None, Some(num_batches)},
          use_cuda \in BOOLEAN, out \in EvaluatorOutcomes :
         LET e == EvalEntry("pipeline", m, iterations, use_cuda, out) IN
         /\ evalLog' = Append(evalLog, e)
         /\ IF e.w_out.raised
            THEN /\ error' = [raised |-> TRUE, step |-> "pipeline", err |-> e.w_out.err]
                 /\ UNCHANGED <<accuracy, accuracy_src>>
            ELSE /\ accuracy' = e.w_out.value
                 /\ accuracy_src' = Len(evalLog) + 1
                 /\ error' = NoError
    /\ UNCHANGED <<inputs, pc, trace, heap, model, BN_folded_model, sims,
                   data_pipeline, ctor_config, data_loader, dummy_input,
                   bc_params, printed, files>>

\* data_loader = data_pipeline.data_loader()
PDataLoader ==
    /\ pc = "pipeline"
    /\ data_pipeline.constructed
    /\ data_loader' = PipelineDataLoader(data_pipeline)
    /\ UNCHANGED <<inputs, pc, error, trace, heap, model, BN_folded_model, sims,
                   data_pipeline, ctor_config, dummy_input, bc_params, accuracy,
                   accuracy_src, evalLog, printed, files>>

NextPipeline == PConstruct \/ PEvaluate \/ PDataLoader

SpecPipeline == InitPipeline /\ [][NextPipeline]_vars

(***************************************************************************)
(* Properties                                                              *)
(***************************************************************************)
Range(s) == { s[i] : i \in DOMAIN s }
Last(s) == s[Len(s)]
IsPrefix(s, t) == Len(s) <= Len(t) /\ s = SubSeq(t, 1, Len(s))
Ended == pc \in {"done", "failed"}
GuardError == error.raised /\ error.step = "cuda_guard"
CudaMissing == config.use_cuda /\ ~cuda_available

\* C1: the CUDA guard raises exactly when use_cuda is True and CUDA is
\* unavailable, and then before model.eval(), before any evaluation and before
\* any print; in every other case the guard raises nothing and a run that got
\* to the guard goes on to call the baseline evaluation on the model in eval mode.
C1_GuardRaisesBeforeEval ==
    /\ GuardError =>
         /\ CudaMissing
         /\ pc = "failed"
         /\ heap[model].training
         /\ evalLog = <<>>
         /\ printed = <<>>
    /\ CudaMissing =>
         /\ "cuda_guard" \notin Range(trace)
         /\ evalLog = <<>>
         /\ printed = <<>>
         /\ model # 0 => heap[model].training
         /\ (Ended /\ "load_model" \in Range(trace)) => GuardError
    /\ ~CudaMissing =>
         /\ ~GuardError
         /\ (Ended /\ "load_model" \in Range(trace)) =>
              /\ Len(evalLog) >= 1
              /\ evalLog[1].caller = "baseline_evaluate"
              /\ evalLog[1].e_args.model = model
              /\ ~evalLog[1].snap.training

C1_Witness == GuardError /\ pc = "failed" /\ model # 0

\* The steps the claimed flow names, in the claimed order.
ClaimedOrder ==
    << "load_model", "baseline_evaluate",
       "quantizer_build", "quantizer_encodings", "quantizer_evaluate",
       "equalize",
       "cle_build", "cle_encodings", "cle_evaluate",
       "correct_bias",
       "bc_build", "bc_encodings", "bc_evaluate",
       "save" >>

IsClaimedStep(s) == s \in Range(ClaimedOrder)

\* C2: the completed steps always follow the claimed order (load, baseline
\* evaluation, first simulation built, calibrated and evaluated, equalize_model,
\* second simulation, correct_bias, third simulation, save), and a complete run
\* has done each exactly once, with the save last.
C2_StepOrder ==
    /\ IsPrefix(SelectSeq(trace, IsClaimedStep), ClaimedOrder)
    /\ pc = "done" =>
         /\ SelectSeq(trace, IsClaimedStep) = ClaimedOrder
         /\ Last(trace) = "save"
         /\ Len(files) = 1
         /\ Len(evalLog) = 7
         /\ heap[model].cle /\ heap[model].bc

C2_Witness == pc = "done" /\ Len(trace) = Len(Program)

\* C3: in a complete run the object written to <logdir>/quantized_model.pth is
\* the model held by bc_quantizer, written exactly once, after the
\* post-bias-correction accuracy was printed.
C3_SavedIsBcQuantizerModel ==
    pc = "done" =>
        /\ Len(files) = 1
        /\ files[1].path = <<config.logdir, "quantized_model.pth">>
        /\ files[1].obj = sims["bc_quantizer"].model
        /\ sims["bc_quantizer"].encodings
        /\ Len(printed) = 4

\* C4: a failing call ends the run at its statement with its error: the
\* statements before it all completed, none after it runs, and a checkpoint
\* exists only when every statement succeeded.
C4_FailureStopsRun ==
    /\ error.raised =>
         /\ pc = "failed"
         /\ ~ENABLED Next
         /\ trace = SubSeq(Program, 1, IndexOf(error.step) - 1)
         /\ files = <<>>
         /\ (evalLog # <<>> /\ Last(evalLog).e_out.raised) =>
              /\ error.step = Last(evalLog).caller
              /\ error.err = Last(evalLog).e_out.err
    /\ ~error.raised =>
         /\ pc # "failed"
         /\ IsPrefix(trace, Program)
         /\ \A i \in DOMAIN evalLog : ~evalLog[i].e_out.raised
    /\ files # <<>> => (pc = "done" /\ trace = Program /\ ~error.raised)

C4_Witness ==
    /\ error.raised /\ error.step = "correct_bias"
    /\ trace = SubSeq(Program, 1, IndexOf("correct_bias") - 1)

\* C5: every call of ImageNetDataPipeline.evaluate hands the evaluator the
\* (model, iterations, use_cuda) it was given and answers what the evaluator
\* answered, value or exception; and the pipeline's _config stays the config
\* its constructor was given, whatever evaluate and data_loader calls were made.
C5_EvaluateForwards ==
    /\ \A i \in DOMAIN evalLog :
         /\ evalLog[i].e_args = evalLog[i].w_args
         /\ evalLog[i].w_out = evalLog[i].e_out
    /\ (~error.raised /\ accuracy_src # 0) => accuracy = evalLog[accuracy_src].e_out.value
    /\ data_pipeline.constructed =>
         /\ data_pipeline._config = ctor_config
         /\ ctor_config = config
    /\ data_loader.made => data_loader.images_dir = ctor_config.dataset_dir

C5_Witness ==
    /\ Len(evalLog) = 2
    /\ evalLog[1].e_out.raised
    /\ ~evalLog[2].e_out.raised
    /\ evalLog[2].w_args.use_cuda
    /\ evalLog[2].w_args.iterations # None
    /\ data_loader.made

StepsBetween(a, b) == { Program[i] : i \in IndexOf(a)..IndexOf(b) }

\* C6: from the baseline evaluation up to the call of equalize_model, `model`
\* is the object the baseline evaluated, in the state it was evaluated in, with
\* its batch norms not folded; the folding went to a distinct object.
C6_ModelUnfoldedAtEqualize ==
    /\ pc \in StepsBetween("print_original", "equalize") =>
         /\ evalLog[1].e_args.model = model
         /\ heap[model] = evalLog[1].snap
         /\ ~heap[model].bn_folded
    /\ pc = "equalize" =>
         /\ BN_folded_model # model
         /\ heap[BN_folded_model].bn_folded

C6_Witness == pc = "equalize" /\ sims["quantizer"].encodings

Labels ==
    << "Original Model Accuracy",
       "Quantized (INT8) Model Top-1 Accuracy",
       "CLE applied Model Top-1 accuracy on Quant Simulator",
       "Quantized (INT8) Model Top-1 Accuracy After Bias Correction" >>

\* The techniques a printed accuracy must reflect, by position.
Expected(i, s) ==
    CASE i = 1 -> ~s.bn_folded /\ ~s.cle /\ ~s.bc /\ ~s.quant_wrapped
      [] i = 2 -> s.bn_folded /\ ~s.cle /\ ~s.bc /\ s.quant_wrapped
      [] i = 3 -> s.cle /\ ~s.bc /\ s.quant_wrapped
      [] OTHER -> s.cle /\ s.bc /\ s.quant_wrapped

EncodingsStep(n) ==
    CASE n = "quantizer" -> "quantizer_encodings"
      [] n = "cle_quantizer" -> "cle_encodings"
      [] OTHER -> "bc_encodings"

EvaluateStep(n) ==
    CASE n = "quantizer" -> "quantizer_evaluate"
      [] n = "cle_quantizer" -> "cle_evaluate"
      [] OTHER -> "bc_evaluate"

\* C8: every simulation is evaluated for accuracy only with its encodings
\* computed, right after its calibration pass; the calibration pass is
\* data_pipeline.evaluate on the simulation's model with iterations =
\* num_batches, the accuracy evaluation has iterations = None.
C8_CalibrationThenEvaluation ==
    \A n \in SimNames : \A i \in DOMAIN evalLog :
        /\ evalLog[i].caller = EncodingsStep(n) =>
             /\ evalLog[i].e_args.model = sims[n].model
             /\ evalLog[i].e_args.iterations = {num_batches}
        /\ evalLog[i].caller = EvaluateStep(n) =>
             /\ sims[n].encodings
             /\ evalLog[i].e_args.model = sims[n].model
             /\ evalLog[i].e_args.iterations = None
             /\ i > 1
             /\ evalLog[i - 1].caller = EncodingsStep(n)
             /\ ~evalLog[i - 1].e_out.raised

C8_Witness ==
    /\ Len(evalLog) = 7
    /\ num_batches = NumBatchesTypical
    /\ evalLog[7].caller = "bc_evaluate"

\* C9: every call of data_pipeline.evaluate reaches the evaluator with
\* use_cuda = config['use_cuda'].
C9_UseCudaConsistent ==
    \A i \in DOMAIN evalLog : evalLog[i].e_args.use_cuda = config.use_cuda

SimSteps ==
    { "dummy_input_q", "deepcopy", "fold_bn", "quantizer_build",
      "quantizer_encodings", "quantizer_evaluate",
      "dummy_input_cle", "cle_build", "cle_encodings", "cle_evaluate",
      "dummy_input_bc", "bc_build", "bc_encodings", "bc_evaluate" }

Transforms(o) == <<o.bn_folded, o.cle, o.bc, o.quant_wrapped>>

SimStepKeepsModel ==
    (pc \in SimSteps) => (model' = model /\ heap'[model] = heap[model])

TransformOnlyByLibrary ==
    (model # 0 /\ model' = model /\ Transforms(heap'[model]) # Transforms(heap[model]))
        => (pc \in {"equalize", "correct_bias"})

====
